---- MODULE Spec2Model ----
(***************************************************************************)
(* Model of verl/tools/grep_search_tool.py: the GrepSearchTool lifecycle   *)
(* (create, execute, calc_reward, release) over its instance store, with   *)
(* the search step of execute (primary utility rg, fallback utility grep,  *)
(* 10 second timeout) driven by a nondeterministic environment.            *)
(*                                                                         *)
(* Every lifecycle method is a coroutine without an await, so each call    *)
(* runs to completion on the event loop: one action per call.              *)
(*                                                                         *)
(* Beside it: main() of examples/data_preprocess/                         *)
(* code_agent_multiturn_w_tool.py, one action per step of the job, and     *)
(* NoopRewardManager.__call__ of verl/workers/reward_manager/noop.py.      *)
(*                                                                         *)
(* Text is a sequence of chunks; the chunk "\n" is the line separator and  *)
(* every other chunk stands for text without a line break.  Floats 0.0     *)
(* are written 0.                                                          *)
(***************************************************************************)
EXTENDS Integers, Sequences, FiniteSets, TLC

VARIABLES
    config,          \* self.config, fixed at construction
    _instance_dict,  \* self._instance_dict: instance id -> state
    last,            \* the latest call: its arguments, what it found, how it ended
    lifecycle,       \* per identifier, how far its create/execute/release has got
    job,             \* the preprocessing job: its inputs, position, files and log
    noop             \* the no-op reward manager: the batch given, what came back

vars == <<config, _instance_dict, last, lifecycle, job, noop>>

----------------------------------------------------------------------------
(* Bounds of the explored inputs *)

\* most match lines one search prints
MaxMatches == 2
\* largest configured max_lines
MaxLinesBound == 2

----------------------------------------------------------------------------
(* Values *)

None == "<None>"
NL == "\n"

\* identifiers the callers supply; uuid4() draws from the same opaque tokens
Ids == {"a", "b"}
\* the identifier the search step is explored on
SearchIds == {"a"}

GroundTruths == {None, "gt"}

DefaultMaxLines == 20
DefaultSearchRoot == "<cwd>"

NoMatchText == <<"<no match>">>
TimeoutLine == <<"<search timeout>">>

Min(x, y) == IF x <= y THEN x ELSE y
Max(x, y) == IF x >= y THEN x ELSE y

\* Python values that reach parameters["query"]
PyStr(s) == [type |-> "str", val |-> s]
PyInt(n) == [type |-> "int", val |-> n]

Digits == <<"0", "1", "2", "3", "4", "5", "6", "7", "8", "9">>

RECURSIVE NatToStr(_)
NatToStr(n) ==
    IF n < 10 THEN Digits[n + 1]
    ELSE NatToStr(n \div 10) \o Digits[(n % 10) + 1]

\* str(query) for a query that is not a str
str(v) ==
    IF v.type = "str" THEN v.val
    ELSE IF v.val < 0 THEN "-" \o NatToStr(0 - v.val)
    ELSE NatToStr(v.val)

\* dict.get(key, default)
DictGet(d, key, default) == IF key \in DOMAIN d THEN d[key] ELSE default

----------------------------------------------------------------------------
(* The search step *)

\* the match lines a utility can print: distinct path:line:content lines
MatchLinePool == <<"m1", "m2", "m3", "m4">>
\* a utility walks the tree in one direction or the other: the outputs are
\* the prefixes of the pool and of the pool reversed
Ascending(n) == [i \in 1..n |-> MatchLinePool[i]]
Descending(n) == [i \in 1..n |-> MatchLinePool[Min(MaxMatches, Len(MatchLinePool)) + 1 - i]]

MatchSeqs ==
    {Ascending(n) : n \in 0..Min(MaxMatches, Len(MatchLinePool))}
    \cup {Descending(n) : n \in 0..Min(MaxMatches, Len(MatchLinePool))}

\* what rg -n --no-heading / grep -R -n write: one match per line
RECURSIVE PrintMatches(_)
PrintMatches(ms) ==
    IF ms = <<>> THEN <<>>
    ELSE <<Head(ms), NL>> \o PrintMatches(Tail(ms))

Stdouts == {PrintMatches(ms) : ms \in MatchSeqs}

\* index of the first line separator of text, 0 if there is none
RECURSIVE FirstNL(_, _)
FirstNL(text, i) ==
    IF i > Len(text) THEN 0
    ELSE IF text[i] = NL THEN i
    ELSE FirstNL(text, i + 1)

\* str.splitlines()
RECURSIVE splitlines(_)
splitlines(text) ==
    IF text = <<>> THEN <<>>
    ELSE LET n == FirstNL(text, 1)
         IN IF n = 0 THEN <<text>>
            ELSE <<SubSeq(text, 1, n - 1)>>
                 \o splitlines(SubSeq(text, n + 1, Len(text)))

\* "\n".join(lines)
RECURSIVE join(_)
join(lines) ==
    IF lines = <<>> THEN <<>>
    ELSE IF Len(lines) = 1 THEN lines[1]
    ELSE lines[1] \o <<NL>> \o join(Tail(lines))

\* a slice that keeps every line
SliceAll(lines, m) == lines

\* output_lines[:max_lines]
Slice(lines, m) ==
    IF m >= 0 THEN SubSeq(lines, 1, Min(m, Len(lines)))
    ELSE SubSeq(lines, 1, Max(0, Len(lines) + m))

\* the join alone, without the sentinel
ResultTextPlain(sliced) == join(sliced)

\* "\n".join(sliced) if sliced else "<no match>"
ResultText(sliced) == IF sliced /= <<>> THEN join(sliced) ELSE NoMatchText

PrimaryCmd(query, search_root) ==
    <<"rg", "-n", "--no-heading", "--color", "never", query, search_root>>

FallbackCmd(query, search_root) ==
    <<"grep", "-R", "-n", query, search_root>>

\* what subprocess.run does with one utility in the environment env
Missing == [status |-> "missing", stdout |-> <<>>]
Hangs == [status |-> "timeout", stdout |-> <<>>]
Prints(out) == [status |-> "ok", stdout |-> out]

\* the environments of one execute: the primary decides; the fallback is
\* explored in full where it is reached and at two points elsewhere
SearchEnvs ==
    {[rg |-> Missing, grep |-> g] :
        g \in {Missing, Hangs} \cup {Prints(o) : o \in Stdouts}}
    \cup
    {[rg |-> r, grep |-> g] :
        r \in {Hangs} \cup {Prints(o) : o \in Stdouts},
        g \in {Missing, Prints(PrintMatches(<<MatchLinePool[1]>>))}}

\* six environments, one per way the search step can end
LifecycleEnvs ==
    LET n == Min(MaxMatches, Len(MatchLinePool))
    IN { [rg |-> Prints(PrintMatches(Ascending(n))),
          grep |-> Prints(PrintMatches(Descending(n)))],
         [rg |-> Prints(<<>>), grep |-> Missing],
         [rg |-> Hangs, grep |-> Prints(PrintMatches(Descending(n)))],
         [rg |-> Missing, grep |-> Prints(PrintMatches(Descending(n)))],
         [rg |-> Missing, grep |-> Hangs],
         [rg |-> Missing, grep |-> Missing] }

\* a search step without the except FileNotFoundError clause
RunSearchNoFallback(query, search_root, env) ==
    IF env.rg.status = "ok"
    THEN [raised |-> "none",
          output_lines |-> splitlines(env.rg.stdout),
          cmds |-> <<PrimaryCmd(query, search_root)>>]
    ELSE IF env.rg.status = "timeout"
    THEN [raised |-> "none",
          output_lines |-> <<TimeoutLine>>,
          cmds |-> <<PrimaryCmd(query, search_root)>>]
    ELSE [raised |-> "FileNotFoundError",
          output_lines |-> <<>>,
          cmds |-> <<PrimaryCmd(query, search_root)>>]

\* lines 92-101: the try statement.  The two except clauses guard the try
\* body only, so what the fallback run raises leaves execute.
RunSearch(query, search_root, env) ==
    IF env.rg.status = "ok"
    THEN [raised |-> "none",
          output_lines |-> splitlines(env.rg.stdout),
          cmds |-> <<PrimaryCmd(query, search_root)>>]
    ELSE IF env.rg.status = "timeout"
    THEN [raised |-> "none",
          output_lines |-> <<TimeoutLine>>,
          cmds |-> <<PrimaryCmd(query, search_root)>>]
    ELSE LET both == <<PrimaryCmd(query, search_root),
                       FallbackCmd(query, search_root)>>
         IN IF env.grep.status = "ok"
            THEN [raised |-> "none",
                  output_lines |-> splitlines(env.grep.stdout),
                  cmds |-> both]
            ELSE IF env.grep.status = "timeout"
            THEN [raised |-> "TimeoutExpired",
                  output_lines |-> <<>>,
                  cmds |-> both]
            ELSE [raised |-> "FileNotFoundError",
                  output_lines |-> <<>>,
                  cmds |-> both]

----------------------------------------------------------------------------
(* The instance store *)

\* a new state that drops the ground truth it is given
NewStateNoGroundTruth(ground_truth) ==
    [response |-> <<>>, ground_truth |-> None, reward |-> 0]

\* lines 69-73
NewState(ground_truth) ==
    [response |-> <<>>, ground_truth |-> ground_truth, reward |-> 0]

\* d[id] = state
DictSet(d, id, state) ==
    [x \in DOMAIN d \cup {id} |-> IF x = id THEN state ELSE d[x]]

\* d[id]["response"] += text
DictAppendResponse(d, id, text) == [d EXCEPT ![id].response = @ \o text]

\* d[id] = {"response": text, "ground_truth": None, "reward": 0.0}
DictSetResponseFresh(d, id, text) ==
    [d EXCEPT ![id] = [response |-> text, ground_truth |-> None, reward |-> 0]]

\* d[id]["response"] = text
DictSetResponse(d, id, text) == [d EXCEPT ![id].response = text]

\* d.clear()
DictClear(d, id) == [x \in {} |-> d[x]]

\* del d[id]
DictDel(d, id) == [x \in DOMAIN d \ {id} |-> d[x]]

\* str(uuid4()): a token no live instance uses
Uuid4 == Ids \ DOMAIN _instance_dict

----------------------------------------------------------------------------
(* Inputs *)

Configs ==
    {<<>>}
    \cup {[search_root |-> "/repo", max_lines |-> m] :
            m \in {-1} \cup 0..MaxLinesBound}

ParamsSet ==
    { [query |-> PyStr("foo")],
      <<>>,
      [query |-> PyInt(42), extra |-> PyStr("x")] }

NoArgs == [kind |-> "none"]
NoReturn == [kind |-> "none"]

\* no preprocessing job and no reward call is under way
NoJob == [pc |-> "none"]
NoBatch == [pc |-> "none"]

\* what a call finds under its identifier: nothing, an instance no execute
\* has written to, or an instance holding an earlier observation
Found(d, id) ==
    IF id \notin DOMAIN d THEN "absent"
    ELSE IF d[id].response = <<>> THEN "fresh"
    ELSE "searched"

Call(op, id, args, found, raised, ret, cmds) ==
    [op |-> op, id |-> id, args |-> args, found |-> found, raised |-> raised,
     ret |-> ret, cmds |-> cmds]

----------------------------------------------------------------------------
(* Construction: lines 40-61 *)

Init ==
    /\ config \in Configs
    /\ _instance_dict = <<>>
    /\ last = Call("__init__", None, NoArgs, "absent", "none", NoReturn, <<>>)
    /\ lifecycle = [i \in Ids |-> "none"]
    /\ job = NoJob
    /\ noop = NoBatch

----------------------------------------------------------------------------
(* Lifecycle methods *)

\* create(instance_id, ground_truth): lines 66-74
Create(instance_id_arg, ground_truth) ==
    \E instance_id \in (IF instance_id_arg = None THEN Uuid4
                        ELSE {instance_id_arg}) :
        /\ _instance_dict' =
              DictSet(_instance_dict, instance_id, NewState(ground_truth))
        /\ last' = Call("create", instance_id,
                        [kind |-> "create", instance_id |-> instance_id_arg,
                         ground_truth |-> ground_truth],
                        Found(_instance_dict, instance_id), "none",
                        [kind |-> "create", instance_id |-> instance_id,
                         observation |-> None],
                        <<>>)
        /\ lifecycle' = [lifecycle EXCEPT ![instance_id] = "created"]
        /\ UNCHANGED config

\* a query read with parameters.get("query") and no default: a missing
\* query becomes str(None)
QueryOfNoDefault(parameters) ==
    IF "query" \notin DOMAIN parameters THEN "None"
    ELSE IF parameters["query"].type /= "str" THEN str(parameters["query"])
    ELSE parameters["query"].val

\* lines 85-87: the query as a str
QueryOf(parameters) ==
    LET query == DictGet(parameters, "query", PyStr(""))
    IN IF query.type /= "str" THEN str(query) ELSE query.val

\* lines 89-90: the configured values are a path string and an int, which
\* str(Path(...)) and int(...) hand back as they are
SearchRoot == DictGet(config, "search_root", DefaultSearchRoot)
MaxLinesOf == DictGet(config, "max_lines", DefaultMaxLines)

\* an execute that empties the response before it searches
ExecuteResetFirst(instance_id, parameters, env) ==
    LET query == QueryOf(parameters)
        search == RunSearch(query, SearchRoot, env)
        output_lines == search.output_lines
        sliced == Slice(output_lines, MaxLinesOf)
        result_text == ResultText(sliced)
        args == [kind |-> "execute", parameters |-> parameters, env |-> env]
        found == Found(_instance_dict, instance_id)
    IN  /\ UNCHANGED config
        /\ IF instance_id \notin DOMAIN _instance_dict
           THEN /\ last' = Call("execute", instance_id, args, found,
                                "KeyError", NoReturn, <<>>)
                /\ UNCHANGED <<_instance_dict, lifecycle>>
           ELSE IF search.raised /= "none"
           THEN /\ _instance_dict' =
                      DictSetResponse(_instance_dict, instance_id, <<>>)
                /\ last' = Call("execute", instance_id, args, found,
                                search.raised, NoReturn, search.cmds)
                /\ UNCHANGED lifecycle
           ELSE /\ _instance_dict' =
                      DictSetResponse(_instance_dict, instance_id, result_text)
                /\ last' = Call("execute", instance_id, args, found, "none",
                                [kind |-> "execute",
                                 observation |-> result_text,
                                 reward |-> 0,
                                 metrics |-> [query |-> query,
                                              total_matches |-> Len(output_lines),
                                              returned_lines |-> Len(sliced)]],
                                search.cmds)
                /\ lifecycle' = [lifecycle EXCEPT ![instance_id] = "executed"]

\* execute(instance_id, parameters): lines 76-115
Execute(instance_id, parameters, env) ==
    LET query == QueryOf(parameters)
        search_root == SearchRoot
        max_lines == MaxLinesOf
        search == RunSearch(query, search_root, env)
        output_lines == search.output_lines
        sliced == Slice(output_lines, max_lines)
        result_text == ResultText(sliced)
        args == [kind |-> "execute", parameters |-> parameters, env |-> env]
        found == Found(_instance_dict, instance_id)
        metrics == [query |-> query,
                    total_matches |-> Len(output_lines),
                    returned_lines |-> Len(sliced)]
    IN  /\ UNCHANGED config
        /\ IF search.raised /= "none"
           THEN /\ last' = Call("execute", instance_id, args, found,
                                search.raised, NoReturn, search.cmds)
                /\ UNCHANGED <<_instance_dict, lifecycle>>
           ELSE IF instance_id \notin DOMAIN _instance_dict
           THEN /\ last' = Call("execute", instance_id, args, found,
                                "KeyError", NoReturn, search.cmds)
                /\ UNCHANGED <<_instance_dict, lifecycle>>
           ELSE /\ _instance_dict' =
                      DictSetResponse(_instance_dict, instance_id, result_text)
                /\ last' = Call("execute", instance_id, args, found, "none",
                                [kind |-> "execute",
                                 observation |-> result_text,
                                 reward |-> 0,
                                 metrics |-> metrics],
                                search.cmds)
                /\ lifecycle' = [lifecycle EXCEPT ![instance_id] = "executed"]

\* a calc_reward that scores the instance and stores the score in it
CalcRewardStored(instance_id) ==
    LET known == instance_id \in DOMAIN _instance_dict
        score == IF known /\ _instance_dict[instance_id].response /= <<>>
                 THEN 1 ELSE 0
    IN  /\ last' = Call("calc_reward", instance_id, NoArgs,
                        Found(_instance_dict, instance_id), "none",
                        [kind |-> "calc_reward", reward |-> score], <<>>)
        /\ _instance_dict' =
              IF known
              THEN [_instance_dict EXCEPT ![instance_id].reward = score]
              ELSE _instance_dict
        /\ UNCHANGED <<config, lifecycle>>

\* calc_reward(instance_id): lines 117-119
CalcReward(instance_id) ==
    /\ last' = Call("calc_reward", instance_id, NoArgs,
                    Found(_instance_dict, instance_id), "none",
                    [kind |-> "calc_reward", reward |-> 0], <<>>)
    /\ UNCHANGED <<config, _instance_dict, lifecycle>>

\* a release that tolerates a missing key: d.pop(instance_id, None)
ReleaseLenient(instance_id) ==
    /\ UNCHANGED config
    /\ _instance_dict' = DictDel(_instance_dict, instance_id)
    /\ last' = Call("release", instance_id, NoArgs,
                    Found(_instance_dict, instance_id), "none", NoReturn, <<>>)
    /\ lifecycle' =
          [lifecycle EXCEPT ![instance_id] =
              IF @ = "executed" THEN "released"
              ELSE IF instance_id \in DOMAIN _instance_dict THEN "none" ELSE @]

\* release(instance_id): lines 121-122
Release(instance_id) ==
    /\ UNCHANGED config
    /\ IF instance_id \in DOMAIN _instance_dict
       THEN /\ _instance_dict' = DictDel(_instance_dict, instance_id)
            /\ last' = Call("release", instance_id, NoArgs,
                            Found(_instance_dict, instance_id), "none",
                            NoReturn, <<>>)
            /\ lifecycle' =
                  [lifecycle EXCEPT ![instance_id] =
                      IF @ = "executed" THEN "released" ELSE "none"]
       ELSE /\ last' = Call("release", instance_id, NoArgs, "absent",
                            "KeyError", NoReturn, <<>>)
            /\ UNCHANGED <<_instance_dict, lifecycle>>

----------------------------------------------------------------------------
(* Specifications *)

\* two trajectories' identifiers, one environment per outcome of the search
Next ==
    \/ \E i \in Ids \cup {None}, g \in GroundTruths :
          Create(i, g) /\ UNCHANGED <<job, noop>>
    \/ \E i \in Ids, p \in ParamsSet, e \in LifecycleEnvs :
          Execute(i, p, e) /\ UNCHANGED <<job, noop>>
    \/ \E i \in Ids : CalcReward(i) /\ UNCHANGED <<job, noop>>
    \/ \E i \in Ids : Release(i) /\ UNCHANGED <<job, noop>>

Spec == Init /\ [][Next]_vars

\* one identifier, every environment
SearchNext ==
    \/ \E i \in SearchIds, g \in GroundTruths :
          Create(i, g) /\ UNCHANGED <<job, noop>>
    \/ \E i \in SearchIds, p \in ParamsSet, e \in SearchEnvs :
          Execute(i, p, e) /\ UNCHANGED <<job, noop>>
    \/ \E i \in SearchIds : CalcReward(i) /\ UNCHANGED <<job, noop>>
    \/ \E i \in SearchIds : Release(i) /\ UNCHANGED <<job, noop>>

SearchSpec == Init /\ [][SearchNext]_vars

----------------------------------------------------------------------------
(* The preprocessing job: main(), lines 98-146 of                          *)
(* examples/data_preprocess/code_agent_multiturn_w_tool.py                  *)

\* most splits of one dataset
MaxSplits == 2

SplitNames == {"train", "validation", "dev", "test"}
\* line 111
ProcessedSplits == {"dev", "test"}

\* a split converts, processes and saves (lines 115-127), or one of these
\* steps raises
SplitOutcomes == {"ok", "error"}

Datasets ==
    UNION {{d \in [1..n -> [name : SplitNames, outcome : SplitOutcomes]] :
              \A i, j \in 1..n : d[i].name = d[j].name => i = j}
           : n \in 0..MaxSplits}

\* line 124
ParquetPath(split_name) == split_name \o ".parquet"

\* the tool is not in use while the job runs
ToolIdle ==
    /\ config = <<>>
    /\ _instance_dict = <<>>
    /\ last = Call("__init__", None, NoArgs, "absent", "none", NoReturn, <<>>)
    /\ lifecycle = [i \in Ids |-> "none"]

PreprocessInit ==
    /\ ToolIdle
    /\ noop = NoBatch
    /\ \E d \in Datasets, mk \in {"ok", "error"}, ld \in {"ok", "error"},
          h \in {"none", "ok", "error"} :
          job = [pc |-> "start",
                 makedirs |-> mk,        \* os.makedirs(local_save_dir)
                 load_dataset |-> ld,    \* load_dataset(args.hf_repo_id)
                 dataset |-> d,          \* the splits, in dataset.keys() order
                 hdfs |-> h,             \* args.hdfs_dir unset, or how the copy ends
                 i |-> 1,
                 processed_files |-> <<>>,
                 log |-> <<>>,
                 copied |-> FALSE]

\* lines 99-107: the local directory and the dataset.  os.makedirs is
\* outside the try statement, so what it raises leaves main.
LoadDataset ==
    /\ job.pc = "start"
    /\ job' =
          IF job.makedirs = "error"
          THEN [job EXCEPT !.pc = "crashed"]
          ELSE IF job.load_dataset = "error"
          THEN [job EXCEPT !.pc = "returned",
                           !.log = @ \o <<"error: Error loading dataset">>]
          ELSE [job EXCEPT !.pc = "loop"]
    /\ UNCHANGED <<config, _instance_dict, last, lifecycle, noop>>

\* lines 110-131: one iteration of the loop over dataset.keys().  The loop
\* is inside the try statement: what an iteration raises ends the loop in
\* the except clause, which logs and returns.
ProcessSplit ==
    /\ job.pc = "loop"
    /\ job.i <= Len(job.dataset)
    /\ LET split == job.dataset[job.i]
       IN job' =
            IF split.name \notin ProcessedSplits
            THEN [job EXCEPT !.i = @ + 1]
            ELSE IF split.outcome = "ok"
            THEN [job EXCEPT !.i = @ + 1,
                             !.processed_files =
                                 Append(@, ParquetPath(split.name)),
                             !.log = Append(@, "info: Saved " \o split.name)]
            ELSE [job EXCEPT !.pc = "returned",
                             !.log = @ \o <<"error: Error loading dataset">>]
    /\ UNCHANGED <<config, _instance_dict, last, lifecycle, noop>>

\* lines 133-146: after the loop
Finish ==
    /\ job.pc = "loop"
    /\ job.i > Len(job.dataset)
    /\ job' =
          IF job.processed_files = <<>>
          THEN [job EXCEPT !.pc = "returned",
                           !.log = Append(@, "warning: No data was processed or saved")]
          ELSE IF job.hdfs = "none"
          THEN [job EXCEPT !.pc = "done",
                           !.log = Append(@, "info: Successfully processed")]
          ELSE IF job.hdfs = "ok"
          THEN [job EXCEPT !.pc = "done",
                           !.copied = TRUE,
                           !.log = @ \o <<"info: Successfully processed",
                                          "info: Successfully copied files to HDFS">>]
          ELSE [job EXCEPT !.pc = "done",
                           !.log = @ \o <<"info: Successfully processed",
                                          "error: Error copying files to HDFS">>]
    /\ UNCHANGED <<config, _instance_dict, last, lifecycle, noop>>

PreprocessNext ==
    \/ LoadDataset
    \/ ProcessSplit
    \/ Finish

PreprocessSpec == PreprocessInit /\ [][PreprocessNext]_vars

----------------------------------------------------------------------------
(* The no-op reward manager: NoopRewardManager.__call__, lines 19-24 of    *)
(* verl/workers/reward_manager/noop.py                                      *)

\* most trajectories of one batch, and most tokens of one response
MaxBatch == 2
MaxResponseLen == 2

TokenIds == {0, 7}

\* a tensor of shape (b, l)
Tensor(b, l, dtype, values) ==
    [shape |-> <<b, l>>, dtype |-> dtype, values |-> values]

ResponseTensors ==
    UNION {{Tensor(b, l, "int64", v) : v \in [1..b -> [1..l -> TokenIds]]}
           : b \in 0..MaxBatch, l \in 0..MaxResponseLen}

\* data.non_tensor_batch: no reward_model field, one without a ground
\* truth, one with a ground truth
NonTensorBatches ==
    { <<>>,
      [reward_model |-> [style |-> "rule"]],
      [reward_model |-> [style |-> "rule", ground_truth |-> "gt"]] }

DataProtos ==
    {[batch |-> [responses |-> t], non_tensor_batch |-> n] :
        t \in ResponseTensors, n \in NonTensorBatches}

\* torch.zeros_like(t, dtype=dtype)
zeros_like(t, dtype) ==
    Tensor(t.shape[1], t.shape[2], dtype,
           [i \in 1..t.shape[1] |-> [j \in 1..t.shape[2] |-> 0]])

NoopInit ==
    /\ ToolIdle
    /\ job = NoJob
    /\ \E d \in DataProtos : noop = [pc |-> "ready", data |-> d]

\* a reward manager that reads each trajectory's ground truth first
NoopCallScoring(return_dict) ==
    /\ noop.pc /= "none"
    /\ LET data == noop.data
           has_gt ==
               /\ "reward_model" \in DOMAIN data.non_tensor_batch
               /\ "ground_truth" \in DOMAIN data.non_tensor_batch["reward_model"]
           reward_tensor == zeros_like(data.batch["responses"], "float32")
       IN noop' =
            IF ~has_gt
            THEN [pc |-> "returned", data |-> data, return_dict |-> return_dict,
                  raised |-> "KeyError", result |-> None]
            ELSE [pc |-> "returned", data |-> data, return_dict |-> return_dict,
                  raised |-> "none",
                  result |-> IF return_dict
                             THEN [reward_tensor |-> reward_tensor]
                             ELSE reward_tensor]
    /\ UNCHANGED <<config, _instance_dict, last, lifecycle, job>>

\* __call__(data, return_dict): lines 19-24
NoopCall(return_dict) ==
    /\ noop.pc /= "none"
    /\ LET data == noop.data
           reward_tensor == zeros_like(data.batch["responses"], "float32")
       IN noop' = [pc |-> "returned", data |-> data,
                   return_dict |-> return_dict,
                   raised |-> "none",
                   result |-> IF return_dict
                              THEN [reward_tensor |-> reward_tensor]
                              ELSE reward_tensor]
    /\ UNCHANGED <<config, _instance_dict, last, lifecycle, job>>

NoopNext == \E return_dict \in BOOLEAN : NoopCall(return_dict)

NoopSpec == NoopInit /\ [][NoopNext]_vars

----------------------------------------------------------------------------
(* Vocabulary of the properties *)

IsExecute == last.op = "execute"
Returned == last.raised = "none"

\* the search step ran a utility to completion
Completed(e) ==
    e.rg.status = "ok" \/ (e.rg.status = "missing" /\ e.grep.status = "ok")

\* the search step ran into the 10 second timeout
TimedOut(e) ==
    e.rg.status = "timeout" \/ (e.rg.status = "missing" /\ e.grep.status = "timeout")

\* what the utility that completed wrote
Printed(e) == IF e.rg.status = "ok" THEN e.rg.stdout ELSE e.grep.stdout

\* the text made of the first n of the match lines ms
FirstLines(ms, n) == join([i \in 1..n |-> <<ms[i]>>])

----------------------------------------------------------------------------
(* C1 *)

\* C1: execute with an identifier that is not in the instance store fails
\* with the instance-not-found error (KeyError) and leaves the store as it
\* was.
C1_UnknownExecuteIsNotFound ==
    [][(last'.op = "execute" /\ last'.id \notin DOMAIN _instance_dict)
         => (last'.raised = "KeyError" /\ _instance_dict' = _instance_dict)]_vars

----------------------------------------------------------------------------
(* C2 *)

\* C2: create with an identifier that is already in the instance store
\* fails and leaves the stored state of that instance as it was.
C2_DuplicateCreateFails ==
    [][(last'.op = "create" /\ last'.id \in DOMAIN _instance_dict)
         => (last'.raised /= "none" /\ _instance_dict' = _instance_dict)]_vars

----------------------------------------------------------------------------
(* C3 *)

----------------------------------------------------------------------------
(* C4 *)

\* C4: when the search step times out, in the primary or in the fallback
\* utility, execute on an existing instance does not raise and returns the
\* timeout sentinel line as the observation.
C4_TimeoutYieldsSentinel ==
    (IsExecute /\ last.found /= "absent" /\ TimedOut(last.args.env))
        => (Returned /\ last.ret.observation = <<"<search timeout>">>)

----------------------------------------------------------------------------
(* C5 *)

\* C5: when the primary utility is not installed, execute runs the fallback
\* utility with the same query and search root and builds its result from
\* what the fallback printed; FileNotFoundError leaves execute exactly when
\* both utilities are missing; with the primary installed only the primary
\* is run.
C5_FallbackWhenPrimaryMissing ==
    IsExecute =>
        LET e == last.args.env
            q == QueryOf(last.args.parameters)
        IN  /\ e.rg.status = "missing" =>
                  /\ Len(last.cmds) = 2
                  /\ last.cmds[1][1] = "rg"
                  /\ last.cmds[2] = <<"grep", "-R", "-n", q, SearchRoot>>
                  /\ last.cmds[1][6] = q
                  /\ last.cmds[1][7] = SearchRoot
            /\ (e.rg.status = "missing" /\ e.grep.status = "ok"
                  /\ last.found /= "absent") =>
                  /\ Returned
                  /\ \E ms \in MatchSeqs :
                        /\ e.grep.stdout = PrintMatches(ms)
                        /\ last.ret.metrics.total_matches = Len(ms)
                        /\ LET n == last.ret.metrics.returned_lines
                           IN n > 0 => last.ret.observation = FirstLines(ms, n)
            /\ (last.raised = "FileNotFoundError")
                  <=> (e.rg.status = "missing" /\ e.grep.status = "missing")
            /\ e.rg.status /= "missing" =>
                  /\ Len(last.cmds) = 1
                  /\ last.cmds[1][1] = "rg"

\* the fallback has produced an observation while the primary would have
\* printed nothing of it
C5_FallbackObservation ==
    /\ IsExecute
    /\ Returned
    /\ last.args.env.rg.status = "missing"
    /\ last.args.env.grep.status = "ok"
    /\ last.ret.metrics.returned_lines > 0

----------------------------------------------------------------------------
(* C6 *)

\* C6 as stated: for a search printing k match lines and max_lines = m >= 0,
\* total_matches = k, returned_lines = min(k, m) and the observation is the
\* first min(k, m) match lines in backend order.
C6_TruncationAsStated ==
    (IsExecute /\ Returned /\ Completed(last.args.env) /\ MaxLinesOf >= 0) =>
        \E ms \in MatchSeqs :
            /\ Printed(last.args.env) = PrintMatches(ms)
            /\ last.ret.metrics.total_matches = Len(ms)
            /\ last.ret.metrics.returned_lines = Min(Len(ms), MaxLinesOf)
            /\ last.ret.observation = FirstLines(ms, Min(Len(ms), MaxLinesOf))

\* C6 amended: for a search printing k match lines and max_lines = m >= 0,
\* total_matches = k and returned_lines = min(k, m); the observation is the
\* first min(k, m) match lines in backend order when min(k, m) > 0 and the
\* no-match sentinel when min(k, m) = 0.
C6_Truncation ==
    (IsExecute /\ Returned /\ Completed(last.args.env) /\ MaxLinesOf >= 0) =>
        \E ms \in MatchSeqs :
            /\ Printed(last.args.env) = PrintMatches(ms)
            /\ last.ret.metrics.total_matches = Len(ms)
            /\ last.ret.metrics.returned_lines = Min(Len(ms), MaxLinesOf)
            /\ last.ret.observation =
                  IF Min(Len(ms), MaxLinesOf) > 0
                  THEN FirstLines(ms, Min(Len(ms), MaxLinesOf))
                  ELSE <<"<no match>">>

\* a search printed more lines than max_lines allows and was cut down
C6_Truncated ==
    /\ IsExecute
    /\ Returned
    /\ Completed(last.args.env)
    /\ MaxLinesOf > 0
    /\ last.ret.metrics.total_matches > MaxLinesOf
    /\ last.ret.metrics.returned_lines = MaxLinesOf

----------------------------------------------------------------------------
(* C7 *)

\* C7: when the utility completes and prints no match line, execute returns
\* exactly the no-match sentinel, with total_matches = 0 and
\* returned_lines = 0; the observation is not the empty string.
C7_NoMatchSentinel ==
    (IsExecute /\ last.found /= "absent" /\ Completed(last.args.env)
        /\ Printed(last.args.env) = <<>>)
        => /\ Returned
           /\ last.ret.observation = <<"<no match>">>
           /\ last.ret.observation /= <<>>
           /\ last.ret.metrics.total_matches = 0
           /\ last.ret.metrics.returned_lines = 0

\* an execute whose search completed without a match has returned
C7_NoMatchReturned ==
    /\ IsExecute
    /\ Returned
    /\ Completed(last.args.env)
    /\ Printed(last.args.env) = <<>>

----------------------------------------------------------------------------
(* C8 *)

\* C8: after an execute that returned, the response of the named instance
\* is the observation that call returned, also when an earlier execute had
\* already stored a response: the new observation replaces it.
C8_ResponseIsLastObservation ==
    (IsExecute /\ Returned)
        => /\ last.id \in DOMAIN _instance_dict
           /\ _instance_dict[last.id].response = last.ret.observation

\* an execute has returned on an instance that held an earlier observation
C8_Overwritten ==
    /\ IsExecute
    /\ Returned
    /\ last.found = "searched"

----------------------------------------------------------------------------
(* C9 *)

\* C9: a lifecycle call on one identifier never creates, removes or changes
\* the state stored under another identifier, whatever the interleaving of
\* the calls of the two trajectories; so what is stored under an identifier
\* is what its own trajectory's calls have made of it: nothing before its
\* create and after its release, an empty response after its create, an
\* observation after its execute.
C9_Isolation ==
    /\ [][\A j \in Ids :
            j /= last'.id =>
                /\ (j \in DOMAIN _instance_dict') = (j \in DOMAIN _instance_dict)
                /\ j \in DOMAIN _instance_dict
                      => _instance_dict'[j] = _instance_dict[j]]_vars
    /\ [](\A i \in Ids :
            /\ lifecycle[i] \in {"none", "released"}
                  <=> i \notin DOMAIN _instance_dict
            /\ lifecycle[i] = "created"
                  => _instance_dict[i].response = <<>>
            /\ lifecycle[i] = "executed"
                  => _instance_dict[i].response /= <<>>)

\* one trajectory's call has acted while the other trajectory's instance
\* holds its own, different observation
C9_TwoLiveInstances ==
    /\ DOMAIN _instance_dict = Ids
    /\ last.op \in {"execute", "create"}
    /\ Returned
    /\ \E j \in Ids :
          /\ j /= last.id
          /\ _instance_dict[j].response /= <<>>
          /\ _instance_dict[j].response /= _instance_dict[last.id].response

----------------------------------------------------------------------------
(* C10 *)

\* C10: calc_reward with an identifier that is not in the instance store
\* raises; it returns no reward for an unknown identifier.
C10_UnknownCalcRewardRaises ==
    (last.op = "calc_reward" /\ last.found = "absent") => last.raised /= "none"

----------------------------------------------------------------------------
(* C11 *)

\* C11: every execute that returns yields the immediate reward 0.0, and
\* calc_reward on an existing instance returns 0.0 and leaves the whole
\* instance store as it was, whatever calls came before.
C11_RewardIsZero ==
    /\ []((IsExecute /\ Returned) => last.ret.reward = 0)
    /\ [][(last'.op = "calc_reward" /\ last'.id \in DOMAIN _instance_dict)
            => /\ last'.raised = "none"
               /\ last'.ret.reward = 0
               /\ _instance_dict' = _instance_dict]_vars

\* calc_reward has returned on an instance that holds an observation
C11_RewardOfSearchedInstance ==
    /\ last.op = "calc_reward"
    /\ Returned
    /\ last.found = "searched"

----------------------------------------------------------------------------
(* C12 *)

JobEnded == job.pc \in {"returned", "done", "crashed"}

\* the splits of the job's dataset that main is to process and that raise
\* nothing
GoodSplits ==
    {i \in 1..Len(job.dataset) :
        /\ job.dataset[i].name \in ProcessedSplits
        /\ job.dataset[i].outcome = "ok"}

\* C12: an error in one split is logged and only that split is skipped:
\* when the job has ended after loading the dataset, every dev or test split
\* that raises nothing has been processed and saved, and a run in which a
\* split succeeded has not crashed.
C12_OtherSplitsProcessed ==
    (JobEnded /\ job.makedirs = "ok" /\ job.load_dataset = "ok") =>
        /\ \A i \in GoodSplits :
              \E k \in 1..Len(job.processed_files) :
                  job.processed_files[k] = job.dataset[i].name \o ".parquet"
        /\ (\E i \in 1..Len(job.dataset) :
                /\ job.dataset[i].name \in ProcessedSplits
                /\ job.dataset[i].outcome = "error")
              => \E k \in 1..Len(job.log) : job.log[k] = "error: Error loading dataset"
        /\ GoodSplits /= {} => job.pc /= "crashed"

----------------------------------------------------------------------------
(* C13 *)

\* C13: for every batch, with its ground truth present or missing, the
\* no-op reward manager does not raise and returns a reward of the shape of
\* the batch's responses with every entry zero; with return_dict the same
\* reward is returned under the single key reward_tensor.
C13_NoopAllZero ==
    noop.pc = "returned" =>
        /\ noop.raised = "none"
        /\ noop.return_dict => DOMAIN noop.result = {"reward_tensor"}
        /\ LET responses == noop.data.batch.responses
               reward == IF noop.return_dict
                         THEN noop.result["reward_tensor"]
                         ELSE noop.result
           IN /\ reward.shape = responses.shape
              /\ DOMAIN reward.values = 1..responses.shape[1]
              /\ \A i \in 1..responses.shape[1] :
                    /\ DOMAIN reward.values[i] = 1..responses.shape[2]
                    /\ \A j \in 1..responses.shape[2] : reward.values[i][j] = 0

\* a reward has come back, as a dict, for a batch of non-zero responses that
\* carries no ground truth
C13_NoGroundTruthBatchRewarded ==
    /\ noop.pc = "returned"
    /\ noop.return_dict
    /\ noop.data.non_tensor_batch = <<>>
    /\ noop.data.batch.responses.shape = <<2, 2>>
    /\ \E i, j \in 1..2 : noop.data.batch.responses.values[i][j] /= 0

----------------------------------------------------------------------------
(* C14 *)

\* the string each shape of parameters stands for
ExpectedQuery(parameters) ==
    IF parameters = <<>> THEN ""
    ELSE IF parameters["query"] = [type |-> "str", val |-> "foo"] THEN "foo"
    ELSE "42"

\* C14: on an existing instance, whether execute raises does not depend on
\* the shape of its parameters, only on the search step; a missing query is
\* the empty string, a query that is not a str is its string form, further
\* keys are ignored, and metrics.query, like the query handed to the
\* utility, is the resulting string.
C14_ParametersCoerced ==
    (IsExecute /\ last.found /= "absent") =>
        LET e == last.args.env
            q == ExpectedQuery(last.args.parameters)
        IN  /\ Returned <=> (e.rg.status /= "missing" \/ e.grep.status = "ok")
            /\ ~Returned => last.raised \in {"FileNotFoundError", "TimeoutExpired"}
            /\ last.cmds[1][6] = q
            /\ Returned => last.ret.metrics.query = q

\* execute has returned for a query that is no str, with a further key
C14_NonStringQueryReturned ==
    /\ IsExecute
    /\ Returned
    /\ "extra" \in DOMAIN last.args.parameters
    /\ last.args.parameters["query"].type = "int"
    /\ last.ret.metrics.query = "42"

----------------------------------------------------------------------------
(* C15 *)

\* C15: create with an identifier of the caller returns that identifier and
\* no initial observation and stores under it a state with an empty
\* response, the ground truth given (or none) and reward 0.0; the execute,
\* calc_reward or release that follows on that identifier finds the
\* instance: none of them raises KeyError.
C15_CreateStoresFreshState ==
    /\ []((last.op = "create" /\ last.args.instance_id /= None) =>
            /\ Returned
            /\ last.ret.instance_id = last.args.instance_id
            /\ last.ret.observation = None
            /\ last.id = last.args.instance_id
            /\ last.id \in DOMAIN _instance_dict
            /\ _instance_dict[last.id] =
                  [response |-> <<>>,
                   ground_truth |-> last.args.ground_truth,
                   reward |-> 0])
    /\ [][(last.op = "create" /\ last.args.instance_id /= None
            /\ last'.op \in {"execute", "calc_reward", "release"}
            /\ last'.id = last.id)
            => /\ last'.found = "fresh"
               /\ last'.raised /= "KeyError"
               /\ last'.op \in {"calc_reward", "release"}
                     => last'.raised = "none"]_vars

\* a create with the caller's identifier and a ground truth has returned
C15_CreatedWithGroundTruth ==
    /\ last.op = "create"
    /\ last.args.instance_id = "a"
    /\ last.args.ground_truth = "gt"
    /\ Returned

----------------------------------------------------------------------------
(* C16 *)

\* C16: execute changes nothing but the response of the named instance: it
\* adds and removes no instance and leaves every ground_truth and reward as
\* it was.  So every stored instance has reward 0.0 and keeps the
\* ground_truth its create gave it until a create or release of that
\* identifier.
C16_ExecuteWritesResponseOnly ==
    /\ [][last'.op = "execute" =>
            /\ DOMAIN _instance_dict' = DOMAIN _instance_dict
            /\ \A i \in DOMAIN _instance_dict :
                  /\ _instance_dict'[i].ground_truth = _instance_dict[i].ground_truth
                  /\ _instance_dict'[i].reward = _instance_dict[i].reward
                  /\ i /= last'.id
                        => _instance_dict'[i].response = _instance_dict[i].response]_vars
    /\ [](\A i \in DOMAIN _instance_dict : _instance_dict[i].reward = 0)
    /\ [](last.op = "create"
            => _instance_dict[last.id].ground_truth = last.args.ground_truth)
    /\ [][\A i \in DOMAIN _instance_dict \cap DOMAIN _instance_dict' :
            ~(last'.op = "create" /\ last'.id = i)
                => _instance_dict'[i].ground_truth = _instance_dict[i].ground_truth]_vars

\* execute has written a second observation to an instance created with a
\* ground truth
C16_ExecutedWithGroundTruth ==
    /\ IsExecute
    /\ Returned
    /\ last.found = "searched"
    /\ _instance_dict[last.id].ground_truth = "gt"

----------------------------------------------------------------------------
(* C17 *)

\* C17: whenever execute raises, for an unknown identifier or from the
\* search step, the instance store is as it was before the call: every
\* instance, the named one included, keeps its response.
C17_RaisingExecuteLeavesStore ==
    [][(last'.op = "execute" /\ last'.raised /= "none")
         => _instance_dict' = _instance_dict]_vars

\* execute has raised from the search step on an instance that still holds
\* the observation of an earlier execute
C17_RaisedOnSearchedInstance ==
    /\ IsExecute
    /\ last.raised \in {"FileNotFoundError", "TimeoutExpired"}
    /\ last.found = "searched"
    /\ _instance_dict[last.id].response /= <<>>

----------------------------------------------------------------------------
(* C18 *)

\* C18: in every execute that returns, the observation is the no-match
\* sentinel exactly when returned_lines = 0, and total_matches counts the
\* match lines alone: it is the number of lines the utility printed and it
\* is 0 when the search timed out, the timeout sentinel not being a match.
C18_TotalCountsMatchesOnly ==
    (IsExecute /\ Returned) =>
        /\ (last.ret.observation = <<"<no match>">>)
              <=> (last.ret.metrics.returned_lines = 0)
        /\ Completed(last.args.env) =>
              \E ms \in MatchSeqs :
                  /\ Printed(last.args.env) = PrintMatches(ms)
                  /\ last.ret.metrics.total_matches = Len(ms)
        /\ TimedOut(last.args.env) => last.ret.metrics.total_matches = 0

====
